---- MODULE Spec2Model ----
(***************************************************************************)
(* State-machine model of wallchanger.py: the module-level load of the     *)
(* settings file, WallpaperChangerApp.__init__, save_config,               *)
(* start_wallpaper_changer, change_wallpaper, toggle_run_at_startup, the   *)
(* QTimer timeout and exit_application.                                    *)
(***************************************************************************)
EXTENDS Integers, Sequences, FiniteSets, TLC

VARIABLES
    pc,                       \* position of the process: boot, loaded, running, dead, exited
    disk,                     \* content of config.json
    config,                   \* the module-level dict `config`
    run_at_startup_checkbox,  \* self.run_at_startup_checkbox.isChecked()
    timer,                    \* self.timer: is a trigger registered, and its interval
    shortcut,                 \* wallchanger.lnk exists in the Startup folder
    wallpaper,                \* file name of the image last applied as the background
    listing,                  \* os.listdir of the one directory of the model
    ev                        \* what the last handler did (calls it made, how it ended)

vars == <<pc, disk, config, run_at_startup_checkbox, timer, shortcut, wallpaper, listing, ev>>

-----------------------------------------------------------------------------
(* Bounds of the model *)

\* longest directory listing drawn for the image-selection specification
MaxEntries == 3

-----------------------------------------------------------------------------
(* Program constants *)

\* "change_interval": 10 in default_config
DefaultInterval == 10
\* the factors of `* 60 * 1000` in start_wallpaper_changer
SecondsPerMinute == 60
MsPerSecond == 1000
\* largest value of the C int that QTimer.start(int msec) takes
IntMax == 2147483647

default_config ==
    [wallpaper_folder |-> "", change_interval |-> DefaultInterval,
     run_at_startup |-> FALSE, randomize_wallpapers |-> FALSE]

-----------------------------------------------------------------------------
(* Strings: file names and the interval text are sequences of characters *)

UpperCase == <<"A","B","C","D","E","F","G","H","I","J","K","L","M",
               "N","O","P","Q","R","S","T","U","V","W","X","Y","Z">>
LowerCase == <<"a","b","c","d","e","f","g","h","i","j","k","l","m",
               "n","o","p","q","r","s","t","u","v","w","x","y","z">>

LowerChar(c) ==
    IF \E i \in 1..Len(UpperCase) : UpperCase[i] = c
    THEN LowerCase[CHOOSE i \in 1..Len(UpperCase) : UpperCase[i] = c]
    ELSE c

\* str.lower()
lower(s) == [i \in 1..Len(s) |-> LowerChar(s[i])]

\* str.endswith(suffix)
EndsWith(s, suffix) ==
    /\ Len(s) >= Len(suffix)
    /\ SubSeq(s, Len(s) - Len(suffix) + 1, Len(s)) = suffix

\* the tuple ('.jpg', '.jpeg', '.png', '.bmp', '.gif')
ImageExtensions ==
    { <<".","j","p","g">>, <<".","j","p","e","g">>, <<".","p","n","g">>,
      <<".","b","m","p">>, <<".","g","i","f">> }

\* f.lower().endswith((...)) for one entry of the listing
IsImage(f) == \E x \in ImageExtensions : EndsWith(lower(f), x)

\* [f for f in os.listdir(folder) if ...]
ImagesOfMutant(lst) == lst
ImagesOf(lst) == SelectSeq(lst, IsImage)

Digits == <<"0","1","2","3","4","5","6","7","8","9">>
IsDigit(c) == \E d \in 1..Len(Digits) : Digits[d] = c
DigitValue(c) == (CHOOSE d \in 1..Len(Digits) : Digits[d] = c) - 1

RECURSIVE DigitsValue(_)
DigitsValue(s) ==
    IF s = <<>> THEN 0
    ELSE 10 * DigitsValue(SubSeq(s, 1, Len(s) - 1)) + DigitValue(s[Len(s)])

\* int(text): an optional sign followed by decimal digits; anything else
\* raises ValueError
IntParses(s) ==
    LET body == IF s # <<>> /\ s[1] \in {"-", "+"} THEN Tail(s) ELSE s
    IN  /\ body # <<>>
        /\ \A i \in 1..Len(body) : IsDigit(body[i])
IntOf(s) ==
    IF s[1] = "-" THEN 0 - DigitsValue(Tail(s))
    ELSE IF s[1] = "+" THEN DigitsValue(Tail(s))
    ELSE DigitsValue(s)

-----------------------------------------------------------------------------
(* The environment: the file system and the settings file *)

\* values of wallpaper_folder: unset, a path that does not exist, a path that
\* exists but is no directory that can be listed, and a directory
Folders == {"", "gone", "file", "pics"}

\* os.path.exists(folder)
PathExists(folder) == folder \in {"file", "pics"}
\* os.listdir(folder) returns instead of raising OSError
Listable(folder) == folder = "pics"

NamePool ==
    { <<"a",".","p","n","g">>, <<"b",".","t","x","t">>, <<"c",".","J","P","G">>,
      <<"d",".","j","p","e","g">>, <<"e",".","G","i","f">>,
      <<"f",".","b","m","p",".","b","a","k">>, <<"p","n","g">>,
      <<"g",".","B","M","P">> }

\* directory listings: sequences of distinct names, in the order listdir returns
ListingsUpTo(n) ==
    UNION { { l \in [1..k -> NamePool] : \A i, j \in 1..k : i # j => l[i] # l[j] }
            : k \in 0..n }

\* the listing a.png, b.txt, c.JPG
SampleListings ==
    { << <<"a",".","p","n","g">>, <<"b",".","t","x","t">>, <<"c",".","J","P","G">> >> }

\* texts typed into interval_entry
IntervalTexts ==
    { <<"a","b","c">>, <<"-","1">>, <<"0">>, <<"5">>, <<"4","3","2","0","0">> }

NoName == <<>>
NoText == <<>>

\* config.json: absent, not valid JSON text, bytes the text decoding rejects,
\* or a JSON document
FileOf(kind, doc) == [kind |-> kind, doc |-> doc]
Missing == FileOf("missing", default_config)
BadJson == FileOf("badjson", default_config)
BadBytes == FileOf("badbytes", default_config)
Document(doc) == FileOf("doc", doc)

-----------------------------------------------------------------------------
(* QTimer *)

MsPerMinute == SecondsPerMinute * MsPerSecond
MaxMinutes == IntMax \div MsPerMinute

\* n * 60 * 1000 is a Python int of any size; it fits the C int of
\* QTimer.start(int) exactly when |n| <= MaxMinutes
FitsCInt(n) == n <= MaxMinutes /\ n >= 0 - MaxMinutes

\* n * 60 * 1000 reduced modulo 2^32 into the C int range, for n just outside
\* the range (computed so that no intermediate value leaves 32 bits)
WrapMs(n) ==
    IF n > 0
    THEN (n - MaxMinutes - 1) * MsPerMinute
         + ((((MaxMinutes * MsPerMinute - IntMax) + MsPerMinute) - IntMax) - 2)
    ELSE (n + MaxMinutes + 1) * MsPerMinute
         + ((((IntMax - MaxMinutes * MsPerMinute) - MsPerMinute) + IntMax) + 2)

\* conversion of the argument of timer.start(interval): the value passed, or
\* OverflowError; a binding without overflow checking truncates instead
ToCInt(n) ==
    IF FitsCInt(n)
    THEN { [ok |-> TRUE, val |-> n * MsPerMinute] }
    ELSE { [ok |-> FALSE, val |-> 0], [ok |-> TRUE, val |-> WrapMs(n)] }

NoTimer == [active |-> FALSE, interval |-> 0]
\* QTimer.stop()
QTimerStop(t) == [active |-> FALSE, interval |-> t.interval]
\* QTimer.start(msec): QObject::startTimer refuses a negative interval
\* ("Timers cannot have negative intervals") and registers nothing
QTimerStart(t, msec) == [active |-> msec >= 0, interval |-> msec]

-----------------------------------------------------------------------------
(* change_wallpaper and start_wallpaper_changer, as the sets of their outcomes *)

\* the name random.choice(images) or images[0] may yield
Choices(cfg, images) ==
    IF cfg.randomize_wallpapers
    THEN { images[i] : i \in 1..Len(images) }
    ELSE { images[1] }

\* the test `if folder and os.path.exists(folder)`
FolderUsableMutant(folder) == folder # ""
FolderUsable(folder) == folder # "" /\ PathExists(folder)

Outcome(raised, wp, calls, rot, image) ==
    [raised |-> raised, wallpaper |-> wp, calls |-> calls, rot |-> rot, image |-> image]

\* change_wallpaper(): raised is the exception that escapes it ("" for none),
\* wallpaper the background afterwards, calls the calls it made, in order.
\* image is the name joined to the folder as image_path.
\* SystemParametersInfoW reports failure by its return value, which is ignored.
change_wallpaper(cfg, lst, wp) ==
    LET folder == cfg.wallpaper_folder IN
    IF FolderUsable(folder)
    THEN IF ~Listable(folder)
         THEN { Outcome("OSError", wp, <<"listdir">>, "unlistable", NoName) }
         ELSE LET images == ImagesOf(lst) IN
              IF images # <<>>
              THEN { Outcome("", IF applied THEN image ELSE wp,
                             <<"listdir", "SystemParametersInfoW">>,
                             IF applied THEN "applied" ELSE "applyfailed", image)
                       : image \in Choices(cfg, images), applied \in BOOLEAN }
              ELSE { Outcome("", wp, <<"listdir">>, "noimages", NoName) }
    ELSE { Outcome("", wp, <<"print">>, "notset", NoName) }

Started(raised, t, wp, calls, period, rot, image) ==
    [raised |-> raised, timer |-> t, wallpaper |-> wp, calls |-> calls,
     period |-> period, rot |-> rot, image |-> image]

\* start_wallpaper_changer(): timer.stop(), timer.start(interval),
\* change_wallpaper(), in this order; an exception ends it where it is raised
start_wallpaper_changer(cfg, t, lst, wp) ==
    LET stopped == QTimerStop(t) IN
    UNION { IF c.ok
            THEN { Started(r.raised, QTimerStart(stopped, c.val), r.wallpaper,
                           <<"timer.stop", "timer.start", "change_wallpaper">> \o r.calls,
                           c.val, r.rot, r.image)
                     : r \in change_wallpaper(cfg, lst, wp) }
            ELSE { Started("OverflowError", stopped, wp, <<"timer.stop">>, 0, "none",
                           NoName) }
          : c \in ToCInt(cfg.change_interval) }

\* record of the last handler
\* record of the last handler: cfg is the `config` it worked with
Event(op, result, input, calls, period, rot, image, cfg) ==
    [op |-> op, result |-> result, input |-> input, calls |-> calls,
     period |-> period, rot |-> rot, image |-> image,
     folder |-> cfg.wallpaper_folder, minutes |-> cfg.change_interval]
Ok(raised) == IF raised = "" THEN "ok" ELSE raised

-----------------------------------------------------------------------------
(* The state after the interpreter starts, before the module body runs *)

Launched == Event("launch", "ok", NoText, <<>>, 0, "none", NoName, default_config)

InitWith(files, listings) ==
    /\ pc = "boot"
    /\ disk \in files
    /\ config = default_config
    /\ run_at_startup_checkbox = FALSE
    /\ timer = NoTimer
    /\ shortcut = FALSE
    /\ wallpaper = NoName
    /\ listing \in listings
    /\ ev = Launched

\* first launch: no settings file, or one damaged from outside
Init == InitWith({Missing, BadJson, BadBytes}, SampleListings)

\* the process is gone: its memory (config, the widgets, the QTimer) with it
Gone(state) ==
    /\ pc' = state
    /\ config' = default_config
    /\ run_at_startup_checkbox' = FALSE
    /\ timer' = NoTimer

-----------------------------------------------------------------------------
(* Module level: load or create the configuration file *)

\* only json.JSONDecodeError is caught around json.load
CaughtOnLoad(kind) == kind = "badjson"

Load ==
    /\ pc = "boot"
    /\ UNCHANGED <<run_at_startup_checkbox, timer, shortcut, wallpaper, listing>>
    /\ IF disk.kind = "missing"
       THEN /\ disk' = Document(default_config)
            /\ config' = default_config
            /\ pc' = "loaded"
            /\ ev' = Event("load", "created", NoText, <<"write">>, 0, "none", NoName,
                           default_config)
       ELSE IF disk.kind = "doc"
       THEN /\ config' = disk.doc
            /\ pc' = "loaded"
            /\ ev' = Event("load", "read", NoText, <<>>, 0, "none", NoName, disk.doc)
            /\ UNCHANGED disk
       ELSE IF CaughtOnLoad(disk.kind)
       THEN /\ config' = default_config
            /\ disk' = Document(default_config)
            /\ pc' = "loaded"
            /\ ev' = Event("load", "reset", NoText, <<"print", "write">>, 0, "none",
                           NoName, default_config)
       ELSE \* UnicodeDecodeError is a ValueError but no JSONDecodeError
            /\ pc' = "dead"
            /\ ev' = Event("load", "UnicodeDecodeError", NoText, <<>>, 0, "none", NoName,
                           default_config)
            /\ UNCHANGED <<disk, config>>

-----------------------------------------------------------------------------
(* WallpaperChangerApp *)

\* __init__: initUI sets the checkbox from config, then the QTimer is created
\* and start_wallpaper_changer() runs; an exception leaves the constructor and
\* ends the script
Startup ==
    /\ pc = "loaded"
    /\ \E s \in start_wallpaper_changer(config, NoTimer, listing, wallpaper) :
         /\ wallpaper' = s.wallpaper
         /\ ev' = Event("init", Ok(s.raised), NoText, s.calls, s.period, s.rot, s.image,
                        config)
         /\ IF s.raised = ""
            THEN /\ pc' = "running"
                 /\ timer' = s.timer
                 /\ run_at_startup_checkbox' = config.run_at_startup
                 /\ UNCHANGED config
            ELSE Gone("dead")
    /\ UNCHANGED <<disk, shortcut, listing>>

\* the in-memory settings after lines 143-146, given how far they got
Assigned(cfg, folder, text, startup, randomize) ==
    IF IntParses(text)
    THEN [wallpaper_folder |-> folder, change_interval |-> IntOf(text),
          run_at_startup |-> startup, randomize_wallpapers |-> randomize]
    ELSE [cfg EXCEPT !.wallpaper_folder = folder]

\* how `with open(config_file, 'w') as f: json.dump(config, f)` ends: the
\* document is written; open raises and the file is as it was; or the write
\* fails after open has truncated the file
WriteOutcomes == {"written", "open fails", "dump fails"}

\* save_config with the widgets' contents (folder_entry, interval_entry and
\* randomize_checkbox) and the outcome of the write
save_config(folder, text, randomize, w) ==
    /\ pc = "running"
    /\ LET cfg == Assigned(config, folder, text, run_at_startup_checkbox, randomize) IN
       /\ config' = cfg
       /\ IF ~IntParses(text)
          THEN /\ ev' = Event("save", "ValueError", text, <<"QMessageBox">>, 0, "none",
                              NoName, cfg)
               /\ UNCHANGED <<disk, timer, wallpaper>>
          ELSE IF w = "written"
          THEN /\ disk' = Document(cfg)
               /\ \E s \in start_wallpaper_changer(cfg, timer, listing, wallpaper) :
                    /\ timer' = s.timer
                    /\ wallpaper' = s.wallpaper
                    /\ ev' = Event("save", Ok(s.raised), text,
                                   <<"write">> \o s.calls \o
                                     (IF s.raised = "" THEN <<>> ELSE <<"QMessageBox">>),
                                   s.period, s.rot, s.image, cfg)
          ELSE /\ disk' = IF w = "open fails" THEN disk ELSE BadJson
               /\ ev' = Event("save", "WriteFailed", text, <<"QMessageBox">>, 0, "none",
                              NoName, cfg)
               /\ UNCHANGED <<timer, wallpaper>>
    /\ UNCHANGED <<pc, run_at_startup_checkbox, shortcut, listing>>

\* a click on the Run at Startup checkbox, then toggle_run_at_startup
toggle_run_at_startup ==
    /\ pc = "running"
    /\ run_at_startup_checkbox' = ~run_at_startup_checkbox
    /\ shortcut' = run_at_startup_checkbox'
    /\ ev' = Event("toggle", "ok", NoText, <<>>, 0, "none", NoName, config)
    /\ UNCHANGED <<pc, disk, config, timer, wallpaper, listing>>

\* self.timer.timeout -> change_wallpaper; an exception that leaves a slot
\* aborts the process (qFatal), or is printed and dropped by an old binding
TimerTick ==
    /\ pc = "running"
    /\ timer.active
    /\ \E r \in change_wallpaper(config, listing, wallpaper) :
         /\ wallpaper' = r.wallpaper
         /\ ev' = Event("tick", Ok(r.raised), NoText, r.calls, 0, r.rot, r.image, config)
         /\ IF r.raised = ""
            THEN UNCHANGED <<pc, config, run_at_startup_checkbox, timer>>
            ELSE \/ Gone("dead")
                 \/ UNCHANGED <<pc, config, run_at_startup_checkbox, timer>>
    /\ UNCHANGED <<disk, shortcut, listing>>

\* the tray menu's Exit
exit_application ==
    /\ pc = "running"
    /\ Gone("exited")
    /\ ev' = Event("exit", "ok", NoText, <<>>, 0, "none", NoName, config)
    /\ UNCHANGED <<disk, shortcut, wallpaper, listing>>

\* the program is started again (by the user, or by the startup shortcut)
Relaunch ==
    /\ pc \in {"dead", "exited"}
    /\ pc' = "boot"
    /\ ev' = Launched
    /\ UNCHANGED <<disk, config, run_at_startup_checkbox, timer, shortcut, wallpaper,
                   listing>>

\* the Save button, the write succeeding
Save ==
    \E folder \in Folders, text \in IntervalTexts, randomize \in BOOLEAN :
        save_config(folder, text, randomize, "written")

Next ==
    \/ Load
    \/ Startup
    \/ Save
    \/ toggle_run_at_startup
    \/ TimerTick
    \/ exit_application
    \/ Relaunch

Spec == Init /\ [][Next]_vars

-----------------------------------------------------------------------------
(* The same program where writing config.json may fail *)

\* interval texts of this specification: one that is no integer, one positive
FaultTexts == { <<"a","b","c">>, <<"5">> }

SaveOrFail ==
    \E folder \in Folders, text \in FaultTexts, randomize \in BOOLEAN,
       w \in WriteOutcomes :
        save_config(folder, text, randomize, w)

NextFaulty ==
    \/ Load
    \/ Startup
    \/ SaveOrFail
    \/ toggle_run_at_startup
    \/ TimerTick
    \/ exit_application
    \/ Relaunch

SpecFaulty == Init /\ [][NextFaulty]_vars

-----------------------------------------------------------------------------
(* Rotation over every directory listing, from a settings file saved earlier *)

SavedDocuments ==
    { Document([wallpaper_folder |-> f, change_interval |-> DefaultInterval,
                run_at_startup |-> FALSE, randomize_wallpapers |-> r])
        : f \in Folders, r \in BOOLEAN }

InitRotation == InitWith(SavedDocuments, ListingsUpTo(MaxEntries))

NextRotation ==
    \/ Load
    \/ Startup
    \/ TimerTick
    \/ exit_application
    \/ Relaunch

SpecRotation == InitRotation /\ [][NextRotation]_vars

-----------------------------------------------------------------------------
(* Properties *)

Made(call) == \E i \in 1..Len(ev.calls) : ev.calls[i] = call
MadeNext(call) == \E i \in 1..Len(ev'.calls) : ev'.calls[i] = call
Count(call) == Cardinality({ i \in 1..Len(ev.calls) : ev.calls[i] = call })

\* the handler ran start_wallpaper_changer
Restarted == Made("timer.stop")
\* the handler ran change_wallpaper
Rotated == ev.rot # "none"

\* C1: a save whose interval text is an integer n <= 0 leaves the document on
\* disk as it was and shows an error to the user.
C1_NonPositiveRejected ==
    [][ (ev'.op = "save" /\ IntParses(ev'.input) /\ IntOf(ev'.input) <= 0)
          => (disk' = disk /\ MadeNext("QMessageBox")) ]_vars

\* C2: a save that fails because the interval text is no integer or because
\* the file cannot be written leaves the in-memory settings and the persisted
\* document as they were before the save.
C2_FailedSaveChangesNothing ==
    [][ (ev'.op = "save" /\ ev'.result \in {"ValueError", "WriteFailed"})
          => (config' = config /\ disk' = disk) ]_vars

\* C3: loading a missing or malformed settings file yields the defaults as the
\* live settings and leaves the default document on disk.
C3_LoadYieldsDefaults ==
    (ev.op = "load" /\ ev.result # "read")
      => (pc = "loaded" /\ config = default_config /\ disk = Document(default_config))

\* C4: from the first restart until the process exits, a repeating trigger is
\* active.
C4_OneActiveTrigger == pc = "running" => timer.active

\* C5: whatever the outcome of a rotation, the process keeps running, and
\* after a rotation started by the trigger the schedule is still active.
C5_RotationNeverFatal ==
    Rotated => (pc = "running" /\ (ev.op = "tick" => timer.active))

\* C6: restart stops the timer, schedules a repeating trigger whose period is
\* change_interval * 60 * 1000 ms of the current settings, then performs
\* exactly one rotation, in this order.
C6_RestartOrder ==
    Restarted =>
      /\ Len(ev.calls) >= 3
      /\ \E i \in 1..(Len(ev.calls) - 2) :
           /\ ev.calls[i] = "timer.stop"
           /\ ev.calls[i + 1] = "timer.start"
           /\ ev.calls[i + 2] = "change_wallpaper"
      /\ Count("timer.stop") = 1 /\ Count("timer.start") = 1
      /\ Count("change_wallpaper") = 1
      /\ FitsCInt(ev.minutes)
      /\ ev.period = ev.minutes * SecondsPerMinute * MsPerSecond
      /\ pc = "running" => (timer.active /\ timer.interval = ev.period)

\* C7: a rotation with wallpaper_folder unset or naming a path that does not
\* exist reports the condition and does nothing else: no directory listing,
\* no wallpaper applied, no exception.
C7_UnsetOrMissingFolder ==
    (Rotated /\ ev.folder \in {"", "gone"})
      => /\ ev.rot = "notset"
         /\ Made("print")
         /\ ~Made("listdir")
         /\ ~Made("SystemParametersInfoW")
         /\ ev.result = "ok"
         /\ ev.image = NoName
C7_Witness == ev.op = "tick" /\ ev.rot = "notset" /\ ev.folder = "gone"

\* C8: the image a rotation selects is an entry of the listing whose name
\* ends, ignoring case, in .jpg, .jpeg, .png, .bmp or .gif.
C8_OnlyImagesSelected ==
    /\ ev.image # NoName =>
         /\ \E i \in 1..Len(listing) : listing[i] = ev.image
         /\ \E x \in ImageExtensions : EndsWith(lower(ev.image), x)
    /\ wallpaper # NoName =>
         /\ \E i \in 1..Len(listing) : listing[i] = wallpaper
         /\ \E x \in ImageExtensions : EndsWith(lower(wallpaper), x)
C8_Witness ==
    /\ ev.rot = "applied"
    /\ wallpaper = <<"c",".","J","P","G">>
    /\ \E i \in 1..Len(listing) : ~IsImage(listing[i])
    /\ config.randomize_wallpapers

\* C9: run_at_startup, in memory and on disk, is true exactly when the
\* startup shortcut exists.
C9_StartupMirrorsShortcut ==
    pc = "running" =>
      /\ config.run_at_startup = shortcut
      /\ disk.kind = "doc" => disk.doc.run_at_startup = shortcut

\* C10: the period of the schedule is change_interval * 60 000 ms of the
\* in-memory settings.
C10_PeriodFollowsSettings ==
    pc = "running" =>
      /\ FitsCInt(config.change_interval)
      /\ timer.interval = config.change_interval * MsPerMinute

====
